---- MODULE Spec2Model ----
(***************************************************************************)
(* Darujme.cz -> Anabix CRM synchronisation (scripts/anabix.py,            *)
(* scripts/darujme.py).                                                    *)
(*                                                                         *)
(* The CRM is a set of ordered collections (contacts, deals, activities,   *)
(* one list's members).  process_darujme_donors is a sequential loop over  *)
(* the pledges of a snapshot file; every CRM round trip is one step, and   *)
(* every round trip may succeed or fail (HTTP error / exception, or an     *)
(* answer whose status is not SUCCESS).                                    *)
(***************************************************************************)
EXTENDS Integers, Sequences, FiniteSets, TLC

(***************************************************************************)
(* Bounds of the model.                                                    *)
(***************************************************************************)
MaxPledges == 2      \* longest pledge list of the snapshots enumerated in full
MaxFailures == 1     \* failing CRM round trips in one run
MaxDonorLen == 3     \* longest pledge list given to categorize_darujme_donors
MaxRuns == 2         \* runs of one program on the same inputs, one after another

(***************************************************************************)
(* Program constants.                                                      *)
(***************************************************************************)
INDIVIDUAL_DONORS_LIST_ID == 57
SecondsPerDay == 86400

SUCCESSFUL_STATES == {"success", "success_money_on_account", "sent_to_organization"}

ACTIVITY_CUSTOM_FIELDS ==
  [amount_gross |-> "33", amount_net |-> "35", support_type |-> "36",
   branch |-> "37", donor_type |-> "38"]
SUPPORT_TYPE_FINANCIAL == "2"
BRANCH_TYK == "5"
DONOR_TYPE_INDIVIDUAL == "2"

(***************************************************************************)
(* Python values.  None is a key that is absent (dict.get gives None); an  *)
(* identifier that is None is 0 (identifiers of the CRM are positive and   *)
(* both are falsy).                                                        *)
(***************************************************************************)
None == "None"

\* a presence check that tests only for None
NotNone(s) == s # None

Truthy(s) == s # None /\ s # ""

Range(s) == {s[k] : k \in 1..Len(s)}

\* str.lower() on the e-mail addresses of the model
Lower(s) ==
  CASE s = "A@x.cz" -> "a@x.cz"
    [] s = "B@x.cz" -> "b@x.cz"
    [] OTHER -> s

\* str(n) for n >= 0, as the sequence of its decimal digits
DigitChar(d) == <<"0", "1", "2", "3", "4", "5", "6", "7", "8", "9">>[d + 1]

RECURSIVE Digits(_)
Digits(n) ==
  IF n < 10 THEN <<DigitChar(n)>> ELSE Digits(n \div 10) \o <<DigitChar(n % 10)>>

\* a rounding that takes every half up
PyRoundHalfUp(c) == (c + 50) \div 100

\* int(round(c / 100)) for c >= 0: Python 3 rounds a half to the even neighbour
PyRoundCents(c) ==
  LET q == c \div 100
      r == c % 100
  IN  IF r < 50 THEN q
      ELSE IF r > 50 THEN q + 1
      ELSE IF q % 2 = 0 THEN q ELSE q + 1

\* `sub in s` for strings, as sequences of characters / tokens
Contains(sub, s) ==
  \E k \in 0..(Len(s) - Len(sub)) : SubSeq(s, k + 1, k + Len(sub)) = sub

\* f"Dar přes Darujme.cz - {sent_amount} Kč": the amount is its digits, the
\* fixed text before and after it one token each
BodyPrefix == <<"Dar pres Darujme.cz - ">>
BodySuffix == <<" Kc">>
ActivityBody(sent_amount) == BodyPrefix \o Digits(sent_amount) \o BodySuffix

(***************************************************************************)
(* Pledges.                                                                *)
(***************************************************************************)
Tx(state, sent, out) == [state |-> state, sentCents |-> sent, outCents |-> out]

PledgedAt(d, s) == [date |-> d, time |-> s, offset |-> "+01:00"]

Pledge(email, name, pid, d, txs) ==
  [donor |-> [email |-> email, firstName |-> name],
   projectId |-> pid,
   pledgedAt |-> PledgedAt(d, 36000),
   transactions |-> txs]

\* the first transaction, whatever its state
FirstTransaction(txs) ==
  IF txs = <<>> THEN <<>> ELSE <<txs[1]>>

\* next(t for t in transactions if t.state in successful_states), <<>> if none
FirstSuccessful(txs) ==
  LET ok == SelectSeq(txs, LAMBDA t : t.state \in SUCCESSFUL_STATES)
  IN  IF ok = <<>> THEN <<>> ELSE <<ok[1]>>

\* re.sub strips the UTC offset; strptime reads the rest as naive local time
PledgeTimestamp(p) == p.pledgedAt.date * SecondsPerDay + p.pledgedAt.time

\* a query that starts at the end of the pledge's date
SinceNextDay(p) == (p.pledgedAt.date + 1) * SecondsPerDay

\* dt.strftime('%Y-%m-%d') parsed again: local midnight of the pledge's date
SinceTimestamp(p) == p.pledgedAt.date * SecondsPerDay

PledgeSentAmount(p) == PyRoundCents(FirstSuccessful(p.transactions)[1].sentCents)
PledgeOutgoingAmount(p) == PyRoundCents(FirstSuccessful(p.transactions)[1].outCents)
PledgeBody(p) == ActivityBody(PledgeSentAmount(p))

(***************************************************************************)
(* Projects snapshot: projectId is a number or a string in the JSON.       *)
(***************************************************************************)
IntId(n) == <<"int", n>>
StrId(n) == <<"str", n>>
\* str(projectId)
PyStr(pid) == <<"str", pid[2]>>

ProjectsDocument ==
  <<[projectId |-> IntId(1), title |-> "T1"],
    [projectId |-> IntId(2), title |-> "T2"]>>

\* a reader that falls back to the known projects when the file gives none
read_projects_or_default(file) ==
  LET doc == IF file.readable /\ file.projects # <<>> THEN file.projects
             ELSE ProjectsDocument
      keys == {PyStr(doc[k].projectId) : k \in 1..Len(doc)}
  IN  [key \in keys |->
         doc[CHOOSE k \in 1..Len(doc) : PyStr(doc[k].projectId) = key].title]

\* {str(project['projectId']): project['title']['cs'] for project in ...}
\* (a later project of the same key replaces an earlier one), {} when unreadable
read_darujme_projects(file) ==
  IF ~file.readable THEN <<>>
  ELSE LET keys == {PyStr(file.projects[k].projectId) : k \in 1..Len(file.projects)}
           last(key) == CHOOSE k \in 1..Len(file.projects) :
                          /\ PyStr(file.projects[k].projectId) = key
                          /\ \A m \in (k + 1)..Len(file.projects) :
                               PyStr(file.projects[m].projectId) # key
       IN  [key \in keys |-> file.projects[last(key)].title]

\* projects.get(project_id)
ProjectTitle(projects, pid) ==
  IF pid \in DOMAIN projects THEN projects[pid] ELSE None

\* data.get('pledges', []), [] when the file is unreadable
read_darujme_data(file) ==
  IF file.readable THEN file.pledges ELSE <<>>

(***************************************************************************)
(* State.                                                                  *)
(***************************************************************************)
VARIABLES
  darujme_file,    \* the pledges snapshot on disk
  projects_file,   \* the projects snapshot on disk
  contacts,        \* CRM contacts, in the order the API lists them
  deals,           \* CRM deals, in the order the API lists them
  activities,      \* CRM activities, in the order the API lists them
  list_members,    \* contact ids on the list INDIVIDUAL_DONORS_LIST_ID
  email_search,    \* how the CRM applies criteria.email: "exact" or "nocase"
  pc,              \* where process_darujme_donors / categorize_darujme_donors is
  pledges,         \* the pledge list being worked on
  projects,        \* project id -> title, as read
  i,               \* index of the pledge being handled (1-based)
  contact_id,      \* local of the loop body, 0 for None
  deal_id,         \* local of the loop body, 0 for None
  results,         \* the accumulator process_darujme_donors returns
  requests,        \* every CRM request issued so far, in order
  failed,          \* the round trips that failed so far: <<pledge index, request>>
  unique_donors,   \* categorize_darujme_donors: donors kept by the first loop
  result,          \* categorize_darujme_donors: the 'new' and 'existing' buckets
  run,             \* which run of the program on these inputs this is (1, 2, ...)
  before,          \* what the run before this one returned and left in the CRM
  env,             \* darujme.py: the environment (credentials, timeframe, clock)
  projects_data,   \* darujme.py main: what get_projects returned
  data,            \* darujme.py main: what download_data returned
  from_date,       \* darujme.py: the fromPledgedDate parameters sent, in order
  exit_status,     \* darujme.py: "running", exit code "0" / "1", or the uncaught exception
  log              \* darujme.py: the messages logged, in order

vars == <<darujme_file, projects_file, contacts, deals, activities, list_members,
          email_search, pc, pledges, projects, i, contact_id, deal_id, results,
          requests, failed, unique_donors, result, run, before, env, projects_data,
          data, from_date, exit_status, log>>

crm == <<contacts, deals, activities, list_members>>
inputs == <<darujme_file, projects_file, email_search>>
cat == <<unique_donors, result>>
earlier == <<run, before>>
fetcher == <<env, projects_data, data, from_date, exit_status, log>>

(***************************************************************************)
(* The CRM's side of a request (requestType.requestMethod).                *)
(***************************************************************************)
Request(idx, req, arg) == [i |-> idx, req |-> req, arg |-> arg]

\* A round trip answers ("ok"), answers with a status other than SUCCESS
\* ("status"), or fails on the wire: non-200 or an exception of requests ("http")
Outcomes ==
  {"ok"} \cup (IF Len(failed) < MaxFailures THEN {"status", "http"} ELSE {})

NextId(records, field) ==
  IF records = <<>> THEN 1
  ELSE 1 + (CHOOSE m \in {records[k][field] : k \in 1..Len(records)} :
              \A k \in 1..Len(records) : records[k][field] <= m)

\* contacts.getAll with criteria {email}
CrmContactsByEmail(email) ==
  SelectSeq(contacts, LAMBDA c :
    IF email_search = "exact" THEN c.email = email
    ELSE Lower(c.email) = Lower(email))

\* deals.getAll with criteria {title}
CrmDealsByTitle(title) == SelectSeq(deals, LAMBDA d : d.title = title)

\* activities.getAll with criteria {idContact, idDeal}
CrmActivitiesOf(cid, did) ==
  SelectSeq(activities, LAMBDA a : a.idContact = cid /\ a.idDeal = did)

(***************************************************************************)
(* The client's side.                                                      *)
(***************************************************************************)
\* a comparison of the e-mails as they are, without lower()
find_contact_exact(email, contacts_data) ==
  LET hits == SelectSeq(contacts_data, LAMBDA c : c.email = email)
  IN  IF hits = <<>> THEN 0 ELSE hits[1].idContact

\* find_contact_by_email on an answered request: the id of the first listed
\* contact whose lower-cased e-mail is the lower-cased e-mail asked for
find_contact_by_email(email, contacts_data) ==
  LET hits == SelectSeq(contacts_data, LAMBDA c : Lower(c.email) = Lower(email))
  IN  IF hits = <<>> THEN 0 ELSE hits[1].idContact

\* get_or_create_deal on a non-empty answer: existing_deals[0].get("idDeal")
FirstDealId(existing_deals) == existing_deals[1].idDeal

\* get_activities_by_contact_and_deal: the date filter on an answered request
FilterSince(listed, since_timestamp) ==
  SelectSeq(listed, LAMBDA a : a.timestamp >= since_timestamp)

\* create_darujme_pledge_activity: `body in str(activity.get('body', ''))`
IsDuplicate(body, existing_activities) ==
  \E k \in 1..Len(existing_activities) : Contains(body, existing_activities[k].body)

\* the custom fields create_darujme_pledge_activity sends, values as strings
CustomFields(p) ==
  [amount_gross |-> Digits(PledgeSentAmount(p)),
   amount_net |-> Digits(PledgeOutgoingAmount(p)),
   support_type |-> SUPPORT_TYPE_FINANCIAL,
   branch |-> BRANCH_TYK,
   donor_type |-> DONOR_TYPE_INDIVIDUAL]

Activity(id, cid, did, body, ts, fields) ==
  [idActivity |-> id, idContact |-> cid, idDeal |-> did, body |-> body,
   timestamp |-> ts, customFields |-> fields]

(***************************************************************************)
(* process_darujme_donors.                                                 *)
(***************************************************************************)
EmptyResults ==
  [processed_pledges |-> 0, new_donors |-> 0, existing_donors |-> 0,
   activities_created |-> 0, errors |-> <<>>, error |-> None]

Bump(r, field) == [r EXCEPT ![field] = @ + 1]
AddError(r, msg) == [r EXCEPT !.errors = Append(@, <<i, msg>>)]

\* the loop moves to the next pledge (continue, the end of the body, or except)
NextPledge ==
  /\ i' = i + 1
  /\ pc' = "loop"
  /\ contact_id' = 0
  /\ deal_id' = 0

\* the log of a request and of its failure
Issue(req, arg, o) ==
  /\ requests' = Append(requests, Request(i, req, arg))
  /\ failed' = IF o = "ok" THEN failed ELSE Append(failed, <<i, req>>)

DonorEmail == pledges[i].donor.email
project_title == ProjectTitle(projects, pledges[i].projectId)

\* lines 662-681: read both snapshots, stop with an error payload if one is empty
ReadSnapshots ==
  /\ pc = "start"
  /\ pledges' = read_darujme_data(darujme_file)
  /\ IF pledges' = <<>>
       THEN /\ results' = [EmptyResults EXCEPT !.error = "No pledges found"]
            /\ projects' = projects
            /\ pc' = "returned"
       ELSE /\ projects' = read_darujme_projects(projects_file)
            /\ IF DOMAIN projects' = {}
                 THEN /\ results' = [EmptyResults EXCEPT !.error = "No projects found"]
                      /\ pc' = "returned"
                 ELSE /\ results' = EmptyResults
                      /\ pc' = "loop"
  /\ i' = 1
  /\ UNCHANGED <<inputs, earlier, fetcher, crm, contact_id, deal_id, requests, failed, cat>>

\* lines 684-693: the presence check on donor e-mail and project title
BeginPledge ==
  /\ pc = "loop"
  /\ i <= Len(pledges)
  /\ IF Truthy(DonorEmail) /\ Truthy(project_title)
       THEN /\ pc' = "find_contact"
            /\ UNCHANGED <<i, results, contact_id, deal_id>>
       ELSE /\ results' = AddError(results, "Missing data")
            /\ NextPledge
  /\ UNCHANGED <<inputs, earlier, fetcher, crm, pledges, projects, requests, failed, cat>>

\* lines 696-697, 710-711 with find_contact_by_email (lines 161-232)
FindContact ==
  /\ pc = "find_contact"
  /\ \E o \in Outcomes :
       /\ Issue("contacts.getAll", DonorEmail, o)
       /\ IF o = "http"
            THEN \* raise RequestException, caught at line 743
                 /\ results' = AddError(results, "exception")
                 /\ NextPledge
            ELSE LET found == IF o = "ok"
                                THEN find_contact_by_email(DonorEmail,
                                       CrmContactsByEmail(DonorEmail))
                                ELSE 0
                 IN  /\ contact_id' = found
                     /\ IF found # 0
                          THEN /\ results' = Bump(results, "existing_donors")
                               /\ pc' = "add_to_list"
                          ELSE /\ results' = results
                               /\ pc' = "create_contact"
                     /\ UNCHANGED <<i, deal_id>>
  /\ UNCHANGED <<inputs, earlier, fetcher, crm, pledges, projects, cat>>

\* lines 698-715 with create_contact (lines 408-493): every failure gives None
CreateContact ==
  /\ pc = "create_contact"
  /\ \E o \in Outcomes :
       /\ Issue("contacts.create", DonorEmail, o)
       /\ IF o = "ok"
            THEN LET id == NextId(contacts, "idContact")
                 IN  /\ contacts' = Append(contacts,
                                      [idContact |-> id, email |-> DonorEmail])
                     /\ contact_id' = id
                     /\ results' = Bump(results, "new_donors")
                     /\ pc' = "add_to_list"
                     /\ UNCHANGED <<i, deal_id>>
            ELSE /\ results' = AddError(results, "Failed to create/find contact")
                 /\ NextPledge
                 /\ UNCHANGED contacts
  /\ UNCHANGED <<inputs, earlier, fetcher, deals, activities, list_members, pledges, projects, cat>>

\* line 718 with manage_contact_lists (lines 234-309): the result is not read
AddToList ==
  /\ pc = "add_to_list"
  /\ \E o \in Outcomes :
       /\ Issue("contacts.manageLists", "", o)
       /\ list_members' = IF o = "ok" THEN list_members \cup {contact_id}
                          ELSE list_members
       /\ IF o = "http"
            THEN \* raise RequestException, caught at line 743
                 /\ results' = AddError(results, "exception")
                 /\ NextPledge
            ELSE /\ pc' = "get_deals"
                 /\ UNCHANGED <<i, results, contact_id, deal_id>>
  /\ UNCHANGED <<inputs, earlier, fetcher, contacts, deals, activities, pledges, projects, cat>>

\* lines 721, 896-901 with get_deals_by_title (lines 748-799): a failure is []
GetDeals ==
  /\ pc = "get_deals"
  /\ \E o \in Outcomes :
       /\ Issue("deals.getAll", project_title, o)
       /\ LET existing_deals == IF o = "ok" THEN CrmDealsByTitle(project_title)
                                ELSE <<>>
          IN  IF existing_deals # <<>>
                THEN /\ deal_id' = FirstDealId(existing_deals)
                     /\ pc' = "record"
                ELSE /\ deal_id' = deal_id
                     /\ pc' = "create_deal"
  /\ UNCHANGED <<inputs, earlier, fetcher, crm, pledges, projects, i, contact_id, results, cat>>

\* lines 722-724, 904-911 with create_deal (lines 801-872): a failure is None
CreateDeal ==
  /\ pc = "create_deal"
  /\ \E o \in Outcomes :
       /\ Issue("deals.create", project_title, o)
       /\ IF o = "ok"
            THEN LET id == NextId(deals, "idDeal")
                 IN  /\ deals' = Append(deals,
                                   [idDeal |-> id, title |-> project_title,
                                    idContact |-> contact_id])
                     /\ deal_id' = id
                     /\ pc' = "record"
                     /\ UNCHANGED <<i, results, contact_id>>
            ELSE /\ results' = AddError(results, "Failed to get/create deal")
                 /\ NextPledge
                 /\ UNCHANGED deals
  /\ UNCHANGED <<inputs, earlier, fetcher, contacts, activities, list_members, pledges, projects, cat>>

\* a pledge without activity that is not counted
ReturnUncounted ==
  /\ results' = results
  /\ NextPledge

\* lines 727-741 on a None result, whatever made create_darujme_pledge_activity
\* give none: the pledge counts as processed
ReturnNoActivity ==
  /\ results' = Bump(results, "processed_pledges")
  /\ NextPledge

\* a recorder that does not query the existing activities (check_duplicates off)
create_without_check ==
  /\ pc = "record"
  /\ IF FirstSuccessful(pledges[i].transactions) = <<>>
       THEN ReturnNoActivity
       ELSE /\ pc' = "create_activity"
            /\ UNCHANGED <<i, results, contact_id, deal_id>>
  /\ UNCHANGED <<inputs, earlier, fetcher, crm, pledges, projects, requests, failed, cat>>

\* lines 1049-1071: the first successful transaction, or return None
create_darujme_pledge_activity ==
  /\ pc = "record"
  /\ IF FirstSuccessful(pledges[i].transactions) = <<>>
       THEN ReturnNoActivity
       ELSE /\ pc' = "get_activities"
            /\ UNCHANGED <<i, results, contact_id, deal_id>>
  /\ UNCHANGED <<inputs, earlier, fetcher, crm, pledges, projects, requests, failed, cat>>

\* lines 1073-1084 with get_activities_by_contact_and_deal (lines 913-967): a
\* failure is [], an answer is filtered by the pledge's date
GetActivities ==
  /\ pc = "get_activities"
  /\ \E o \in Outcomes :
       /\ Issue("activities.getAll", "", o)
       /\ LET existing_activities ==
                IF o = "ok"
                  THEN FilterSince(CrmActivitiesOf(contact_id, deal_id),
                                   SinceTimestamp(pledges[i]))
                  ELSE <<>>
          IN  IF IsDuplicate(PledgeBody(pledges[i]), existing_activities)
                THEN ReturnNoActivity
                ELSE /\ pc' = "create_activity"
                     /\ UNCHANGED <<i, results, contact_id, deal_id>>
  /\ UNCHANGED <<inputs, earlier, fetcher, crm, pledges, projects, cat>>

\* lines 1086-1129, 738-741 with create_activity (lines 969-1034): a failure is
\* None, and the pledge counts as processed either way
CreateActivity ==
  /\ pc = "create_activity"
  /\ \E o \in Outcomes :
       /\ Issue("activities.create",
                [body |-> PledgeBody(pledges[i]),
                 customFields |-> CustomFields(pledges[i])], o)
       /\ IF o = "ok"
            THEN /\ activities' = Append(activities,
                      Activity(NextId(activities, "idActivity"), contact_id, deal_id,
                               PledgeBody(pledges[i]), PledgeTimestamp(pledges[i]),
                               CustomFields(pledges[i])))
                 /\ results' = Bump(Bump(results, "activities_created"),
                                    "processed_pledges")
            ELSE /\ activities' = activities
                 /\ results' = Bump(results, "processed_pledges")
       /\ NextPledge
  /\ UNCHANGED <<inputs, earlier, fetcher, contacts, deals, list_members, pledges, projects, cat>>

\* line 746: return results
Finish ==
  /\ pc = "loop"
  /\ i > Len(pledges)
  /\ pc' = "returned"
  /\ UNCHANGED <<inputs, earlier, fetcher, crm, pledges, projects, i, contact_id, deal_id, results,
                 requests, failed, cat>>

(***************************************************************************)
(* categorize_darujme_donors.                                              *)
(***************************************************************************)
\* lines 382-391: the donors of the pledges, one per e-mail string not seen yet
RECURSIVE ExtractUnique(_, _, _)
ExtractUnique(ps, seen_emails, acc) ==
  IF ps = <<>> THEN acc
  ELSE LET donor == Head(ps).donor
           email == donor.email
       IN  IF Truthy(email) /\ email \notin seen_emails
             THEN ExtractUnique(Tail(ps), seen_emails \cup {email}, Append(acc, donor))
             ELSE ExtractUnique(Tail(ps), seen_emails, acc)

\* lines 398-404: the bucket a looked-up donor goes to
Bucket(r, donor, found) ==
  IF found # 0
    THEN [r EXCEPT !.existing = Append(@, [donor |-> donor, contact_id |-> found])]
    ELSE [r EXCEPT !.new = Append(@, donor)]

CategorizeExtract ==
  /\ pc = "cat_start"
  /\ unique_donors' = ExtractUnique(pledges, {}, <<>>)
  /\ i' = 1
  /\ pc' = "cat_lookup"
  /\ UNCHANGED <<inputs, earlier, fetcher, crm, pledges, projects, contact_id, deal_id, results,
                 requests, failed, result>>

\* lines 394-404: one find_contact_by_email per unique donor; its exception is
\* not caught here and ends the call without a result
CategorizeLookup ==
  /\ pc = "cat_lookup"
  /\ i <= Len(unique_donors)
  /\ LET donor == unique_donors[i]
     IN  \E o \in Outcomes :
           /\ Issue("contacts.getAll", donor.email, o)
           /\ IF o = "http"
                THEN /\ pc' = "cat_raised"
                     /\ UNCHANGED <<i, result>>
                ELSE /\ result' = Bucket(result, donor,
                          IF o = "ok"
                            THEN find_contact_by_email(donor.email,
                                   CrmContactsByEmail(donor.email))
                            ELSE 0)
                     /\ i' = i + 1
                     /\ pc' = pc
  /\ UNCHANGED <<inputs, earlier, fetcher, crm, pledges, projects, contact_id, deal_id, results,
                 unique_donors>>

\* line 406: return result
CategorizeReturn ==
  /\ pc = "cat_lookup"
  /\ i > Len(unique_donors)
  /\ pc' = "cat_returned"
  /\ UNCHANGED <<inputs, earlier, fetcher, crm, pledges, projects, i, contact_id, deal_id, results,
                 requests, failed, cat>>

(***************************************************************************)
(* The snapshots and CRM contents a run starts from.                       *)
(***************************************************************************)
EmailA == "a@x.cz"
EmailB == "b@x.cz"
Days == {1, 2}

OkTx == Tx("success", 50000, 48500)
FailTx == Tx("failure", 50000, 48500)
LateTx == Tx("sent_to_organization", 50049, 48549)

\* donor A gives to project 1 on both days, donor B to project 2
GoodPledges ==
  {Pledge(EmailA, "Jan", StrId(1), d, <<OkTx>>) : d \in Days}
  \cup {Pledge(EmailB, "Eva", StrId(2), 2, <<OkTx>>)}

\* a pledge with no e-mail (absent, empty), with a project id the projects
\* mapping does not hold, with no successful transaction, and with a successful
\* transaction that is not its first
OddPledges ==
  {Pledge(None, "Jan", StrId(1), 1, <<OkTx>>),
   Pledge("", "Jan", StrId(1), 1, <<OkTx>>),
   Pledge(EmailA, "Jan", IntId(1), 1, <<OkTx>>),
   Pledge(EmailA, "Jan", StrId(1), 1, <<>>),
   Pledge(EmailA, "Jan", StrId(1), 1, <<FailTx>>),
   Pledge(EmailA, "Jan", StrId(1), 1, <<FailTx, LateTx>>)}

PledgeUniverse == GoodPledges \cup OddPledges

\* amounts in minor units: below, at and above the midpoint between two whole
\* units, with an even and with an odd unit below
Cents == {0, 49, 50, 51, 149, 150, 151, 250, 12345, 12350}

\* one pledge per sent amount and one per outgoing amount
AmountPledges ==
  {Pledge(EmailA, "Jan", StrId(1), 1, <<Tx("success", c, 12345)>>) : c \in Cents}
  \cup {Pledge(EmailA, "Jan", StrId(1), 1, <<Tx("success", 12345, c)>>) : c \in Cents}

RECURSIVE SeqsUpTo(_, _)
SeqsUpTo(S, n) ==
  IF n = 0 THEN {<<>>}
  ELSE LET shorter == SeqsUpTo(S, n - 1)
       IN  shorter \cup {Append(s, x) : s \in shorter, x \in S}

Deal(id, title) == [idDeal |-> id, title |-> title, idContact |-> 1]

NoFields ==
  [amount_gross |-> <<>>, amount_net |-> <<>>, support_type |-> "", branch |-> "",
   donor_type |-> ""]

\* activities already on contact 1 and deal 1: the body a 500 Kc pledge gives,
\* dated the last second of day 1; that body inside a longer note, and the body
\* of another amount, dated the first second of day 2
OldActivities ==
  {Activity(1, 1, 1, ActivityBody(500), 2 * SecondsPerDay - 1, NoFields),
   Activity(1, 1, 1, <<"Pozn.: ">> \o ActivityBody(500) \o <<" (rucne)">>,
            2 * SecondsPerDay, NoFields),
   Activity(1, 1, 1, ActivityBody(1500), 2 * SecondsPerDay, NoFields)}

InitCrm ==
  /\ contacts \in {<<>>, <<[idContact |-> 1, email |-> EmailA]>>}
  /\ deals \in {<<>>, <<Deal(1, "T1")>>, <<Deal(1, "T1"), Deal(2, "T1")>>}
  /\ activities \in
       {<<>>} \cup (IF contacts # <<>> /\ deals # <<>>
                      THEN {<<a>> : a \in OldActivities} ELSE {})
  /\ list_members = {}

\* what a run leaves for the next one to be compared with
Left ==
  [results |-> results, result |-> result, contacts |-> contacts, deals |-> deals,
   activities |-> activities, list_members |-> list_members, failed |-> Len(failed)]

NoRun ==
  [results |-> EmptyResults, result |-> [new |-> <<>>, existing |-> <<>>],
   contacts |-> <<>>, deals |-> <<>>, activities |-> <<>>, list_members |-> {},
   failed |-> 0]

Locals ==
  /\ projects = <<>>
  /\ i = 1
  /\ contact_id = 0
  /\ deal_id = 0
  /\ results = EmptyResults
  /\ requests = <<>>
  /\ failed = <<>>
  /\ unique_donors = <<>>
  /\ result = [new |-> <<>>, existing |-> <<>>]
  /\ run = 1
  /\ before = NoRun

Readable(doc) == [readable |-> TRUE, pledges |-> doc, projects |-> <<>>]
ReadableProjects(doc) == [readable |-> TRUE, pledges |-> <<>>, projects |-> doc]
Unreadable == [readable |-> FALSE, pledges |-> <<>>, projects |-> <<>>]

\* every pledge list up to MaxPledges with the projects snapshot in place, one
\* pledge of each amount, and the snapshots that are absent, malformed or empty
SnapshotFiles ==
  {<<Readable(l), ReadableProjects(ProjectsDocument)>> :
     l \in SeqsUpTo(PledgeUniverse, MaxPledges)}
  \cup {<<Readable(<<p>>), ReadableProjects(ProjectsDocument)>> : p \in AmountPledges}
  \cup ({Unreadable} \X {ReadableProjects(ProjectsDocument)})
  \cup ({Readable(<<p>>) : p \in GoodPledges}
        \X {Unreadable, ReadableProjects(<<>>)})

(***************************************************************************)
(* darujme.py: the fetch program.                                          *)
(***************************************************************************)
\* a JSON value the platform answers with or a function returns: None, or an
\* object with its keys and the list under its 'pledges' / 'projects' key
JsonNone == [is_none |-> TRUE, keys |-> {}, items |-> <<>>]
JsonDict(keys, items) == [is_none |-> FALSE, keys |-> keys, items |-> items]

\* the truth value of None and of a dict
TruthyJson(d) == ~d.is_none /\ d.keys # {}

\* str.lower() on a token, character by character
LowerChar(c) ==
  CASE c = "W" -> "w" [] c = "E" -> "e" [] c = "K" -> "k"
    [] c = "Y" -> "y" [] c = "A" -> "a" [] c = "R" -> "r"
    [] OTHER -> c

LowerChars(t) == [k \in 1..Len(t) |-> LowerChar(t[k])]

\* str.isdigit(): not empty and every character a digit
IsDigit(t) == t # <<>> /\ \A k \in 1..Len(t) : \E d \in 0..9 : t[k] = DigitChar(d)

\* int(t) for a string of digits
RECURSIVE IntOf(_)
IntOf(t) ==
  IF t = <<>> THEN 0
  ELSE 10 * IntOf(SubSeq(t, 1, Len(t) - 1))
       + (CHOOSE d \in 0..9 : t[Len(t)] = DigitChar(d))

\* what get_date_range gives: a date (its day number), or ValueError raised
Date(d) == [raised |-> FALSE, date |-> d]
ValueError == [raised |-> TRUE, date |-> 0]

\* a resolution that falls back to a week for a token it does not know
get_date_range_lenient(timeframe, today) ==
  IF LowerChars(timeframe) = <<"y", "e", "a", "r">> THEN Date(today - 365)
  ELSE IF IsDigit(timeframe) THEN Date(today - IntOf(timeframe))
  ELSE Date(today - 7)

\* lines 42-52
get_date_range(timeframe, today) ==
  IF LowerChars(timeframe) = <<"w", "e", "e", "k">> THEN Date(today - 7)
  ELSE IF LowerChars(timeframe) = <<"y", "e", "a", "r">> THEN Date(today - 365)
  ELSE IF IsDigit(timeframe) THEN Date(today - IntOf(timeframe))
  ELSE ValueError

\* any(transaction["state"] in successful_states for transaction in ...)
AnySuccessful(p) ==
  \E k \in 1..Len(p.transactions) : p.transactions[k].state \in SUCCESSFUL_STATES

\* a filter that looks at the first transaction only
filter_first_transaction(d) ==
  IF ~TruthyJson(d) \/ "pledges" \notin d.keys THEN JsonDict({"pledges"}, <<>>)
  ELSE JsonDict({"pledges"},
         SelectSeq(d.items, LAMBDA p : FirstTransaction(p.transactions) # <<>>
                     /\ FirstTransaction(p.transactions)[1].state \in SUCCESSFUL_STATES))

\* lines 94-108
filter_successful_pledges(d) ==
  IF ~TruthyJson(d) \/ "pledges" \notin d.keys THEN JsonDict({"pledges"}, <<>>)
  ELSE JsonDict({"pledges"}, SelectSeq(d.items, AnySuccessful))

\* the file json.dump(data) leaves, as the readers of anabix.py see it
SavedPledges(d) == Readable(IF "pledges" \in d.keys THEN d.items ELSE <<>>)
SavedProjects(d) == ReadableProjects(IF "projects" \in d.keys THEN d.items ELSE <<>>)

Logged(msg) == log' = Append(log, msg)
Logged2(m1, m2) == log' = Append(Append(log, m1), m2)

\* the process ends: exit(code), the end of main, or an uncaught exception
Exit(status) ==
  /\ exit_status' = status
  /\ pc' = "exited"

\* save_data: the directory cannot be made (OSError, not caught), the file
\* cannot be written (IOError, caught: False), or it is written
SaveOutcomes == {"ok", "ioerror", "oserror"}

\* what the platform answers to the projects request
ProjectsAnswers ==
  {JsonNone,
   JsonDict({}, <<>>),
   JsonDict({"message"}, <<>>),
   JsonDict({"projects"}, ProjectsDocument)}

\* the pledges the platform may list: a successful one, one without
\* transactions, a failed one, and one whose second transaction succeeded
FetchedPledges ==
  {Pledge(EmailA, "Jan", IntId(1), 1, <<OkTx>>),
   Pledge(EmailA, "Jan", IntId(1), 1, <<>>),
   Pledge(EmailB, "Eva", IntId(2), 2, <<FailTx>>),
   Pledge(EmailB, "Eva", IntId(2), 2, <<FailTx, LateTx>>)}

\* what the platform answers to the pledges request
PledgesAnswers ==
  {JsonNone, JsonDict({}, <<>>), JsonDict({"message"}, <<>>)}
  \cup {JsonDict({"pledges"}, l) : l \in SeqsUpTo(FetchedPledges, MaxPledges)}

\* lines 184-200: the credentials are read and checked
Main ==
  /\ pc = "main"
  /\ IF ~env.credentials
       THEN /\ Logged("Missing required environment variables")
            /\ Exit("1")
       ELSE /\ pc' = "get_projects"
            /\ UNCHANGED <<log, exit_status>>
  /\ UNCHANGED <<inputs, crm, pledges, projects, i, contact_id, deal_id, results,
                 requests, failed, cat, earlier, env, projects_data, data, from_date>>

\* lines 203-206 with get_projects (lines 137-169): a RequestException is None
GetProjects ==
  /\ pc = "get_projects"
  /\ \E answer \in ProjectsAnswers :
       /\ projects_data' = answer
       /\ IF answer.is_none
            THEN Logged("Error downloading projects")
            ELSE log' = log
       /\ pc' = IF TruthyJson(answer) THEN "save_projects" ELSE "download_data"
  /\ UNCHANGED <<inputs, crm, pledges, projects, i, contact_id, deal_id, results,
                 requests, failed, cat, earlier, env, data, from_date, exit_status>>

\* lines 207-211 with save_projects / save_data (lines 110-135, 171-181)
SaveProjects ==
  /\ pc = "save_projects"
  /\ \E o \in SaveOutcomes :
       CASE o = "ok" ->
              /\ projects_file' = SavedProjects(projects_data)
              /\ Logged("Projects data saved")
              /\ pc' = "download_data"
              /\ UNCHANGED exit_status
         [] o = "ioerror" ->
              /\ Logged2("Error saving data", "Failed to save projects data")
              /\ Exit("1")
              /\ UNCHANGED projects_file
         [] o = "oserror" ->
              /\ Exit("OSError")
              /\ UNCHANGED <<projects_file, log>>
  /\ UNCHANGED <<darujme_file, email_search, crm, pledges, projects, i, contact_id,
                 deal_id, results, requests, failed, cat, earlier, env,
                 projects_data, data, from_date>>

\* lines 214-215, 222 with download_data (lines 54-82): ValueError of
\* get_date_range is not a RequestException and leaves main uncaught
DownloadData ==
  /\ pc = "download_data"
  /\ LET start == get_date_range(env.timeframe, env.today)
     IN  IF start.raised
           THEN /\ Exit("ValueError")
                /\ UNCHANGED <<data, from_date, log>>
           ELSE /\ from_date' = Append(from_date, start.date)
                /\ \E answer \in PledgesAnswers :
                     /\ data' = answer
                     /\ IF TruthyJson(answer)
                          THEN /\ pc' = "save_data"
                               /\ UNCHANGED <<log, exit_status>>
                          ELSE /\ IF answer.is_none
                                    THEN Logged2("Error downloading data",
                                                 "Process failed")
                                    ELSE Logged("Process failed")
                               /\ Exit("0")
  /\ UNCHANGED <<inputs, crm, pledges, projects, i, contact_id, deal_id, results,
                 requests, failed, cat, earlier, env, projects_data>>

\* lines 216-223: filter, save, and the end of main
SaveData ==
  /\ pc = "save_data"
  /\ \E o \in SaveOutcomes :
       CASE o = "ok" ->
              /\ darujme_file' = SavedPledges(filter_successful_pledges(data))
              /\ Logged2("Process completed successfully", "Process failed")
              /\ Exit("0")
         [] o = "ioerror" ->
              /\ Logged2("Error saving data", "Process failed")
              /\ Exit("0")
              /\ UNCHANGED darujme_file
         [] o = "oserror" ->
              /\ Exit("OSError")
              /\ UNCHANGED <<darujme_file, log>>
  /\ UNCHANGED <<projects_file, email_search, crm, pledges, projects, i, contact_id,
                 deal_id, results, requests, failed, cat, earlier, env,
                 projects_data, data, from_date>>

\* darujme.py is not running
NoFetch ==
  /\ env = [credentials |-> FALSE, timeframe |-> <<>>, today |-> 0]
  /\ projects_data = JsonNone
  /\ data = JsonNone
  /\ from_date = <<>>
  /\ exit_status = "running"
  /\ log = <<>>

\* a run of process_darujme_donors (the program's __main__)
InitProcess ==
  /\ \E f \in SnapshotFiles : darujme_file = f[1] /\ projects_file = f[2]
  /\ email_search = "nocase"
  /\ InitCrm
  /\ pc = "start"
  /\ pledges = <<>>
  /\ Locals
  /\ NoFetch

\* the program is run again on the same snapshots, against the CRM as it is
RunAgain ==
  /\ pc = "returned"
  /\ run < MaxRuns
  /\ run' = run + 1
  /\ before' = Left
  /\ pc' = "start"
  /\ pledges' = <<>>
  /\ projects' = <<>>
  /\ i' = 1
  /\ contact_id' = 0
  /\ deal_id' = 0
  /\ results' = EmptyResults
  /\ requests' = <<>>
  /\ failed' = <<>>
  /\ UNCHANGED <<inputs, crm, cat, fetcher>>

\* donors whose e-mails are absent, empty, equal, or equal but for letter case
Donors ==
  {[email |-> None, firstName |-> "Jan"],
   [email |-> "", firstName |-> "Jan"],
   [email |-> EmailA, firstName |-> "Jan"],
   [email |-> EmailA, firstName |-> "Eva"],
   [email |-> "A@x.cz", firstName |-> "Jan"],
   [email |-> EmailB, firstName |-> "Jan"]}

DonorPledges ==
  {[Pledge(None, "", StrId(1), 1, <<OkTx>>) EXCEPT !.donor = d] : d \in Donors}

\* a call of categorize_darujme_donors(pledges)
InitCategorize ==
  /\ darujme_file = Unreadable
  /\ projects_file = Unreadable
  /\ email_search \in {"exact", "nocase"}
  /\ contacts \in {<<>>,
                   <<[idContact |-> 1, email |-> EmailA]>>,
                   <<[idContact |-> 1, email |-> "A@x.cz"],
                     [idContact |-> 2, email |-> EmailA]>>}
  /\ deals = <<>>
  /\ activities = <<>>
  /\ list_members = {}
  /\ pc = "cat_start"
  /\ pledges \in SeqsUpTo(DonorPledges, MaxDonorLen)
  /\ Locals
  /\ NoFetch

\* three successful pledges of two donors, to one project or to two
EndToEndPledges ==
  GoodPledges \cup {Pledge(EmailA, "Jan", StrId(2), 1, <<OkTx>>),
                    Pledge(EmailB, "Eva", StrId(2), 1, <<OkTx>>)}

EndToEnd ==
  {l \in [1..3 -> EndToEndPledges] : {l[k].donor.email : k \in 1..3} = {EmailA, EmailB}}

\* a run on such a snapshot, with donor A's contact in the CRM and no activity
InitEndToEnd ==
  /\ darujme_file \in {Readable(l) : l \in EndToEnd}
  /\ projects_file = ReadableProjects(ProjectsDocument)
  /\ email_search = "nocase"
  /\ contacts = <<[idContact |-> 1, email |-> EmailA]>>
  /\ deals \in {<<>>, <<Deal(1, "T1")>>}
  /\ activities = <<>>
  /\ list_members = {}
  /\ pc = "start"
  /\ pledges = <<>>
  /\ Locals
  /\ NoFetch

\* categorize_darujme_donors is called again with the same pledge list
CategorizeAgain ==
  /\ pc = "cat_returned"
  /\ run < MaxRuns
  /\ run' = run + 1
  /\ before' = Left
  /\ pc' = "cat_start"
  /\ unique_donors' = <<>>
  /\ result' = [new |-> <<>>, existing |-> <<>>]
  /\ i' = 1
  /\ requests' = <<>>
  /\ failed' = <<>>
  /\ UNCHANGED <<inputs, crm, pledges, projects, contact_id, deal_id, results,
                 fetcher>>

\* the timeframe tokens of DARUJME_TIMEFRAME ("year" when it is not set)
Timeframes ==
  {<<"w", "e", "e", "k">>, <<"W", "e", "e", "k">>, <<"y", "e", "a", "r">>,
   <<"3", "0">>, <<"0", "0", "7">>, <<"b", "a", "n", "a", "n", "a">>,
   <<"w", "e", "e", "k", "s">>, <<"-", "5">>, <<>>}

\* a run of darujme.py (its main), with no snapshot or an older one on disk
InitFetch ==
  /\ env \in [credentials : BOOLEAN, timeframe : Timeframes, today : {1000}]
  /\ darujme_file \in {Unreadable} \cup {Readable(<<p>>) : p \in GoodPledges}
  /\ projects_file \in {Unreadable, ReadableProjects(ProjectsDocument)}
  /\ email_search = "nocase"
  /\ contacts = <<>>
  /\ deals = <<>>
  /\ activities = <<>>
  /\ list_members = {}
  /\ pc = "main"
  /\ pledges = <<>>
  /\ Locals
  /\ projects_data = JsonNone
  /\ data = JsonNone
  /\ from_date = <<>>
  /\ exit_status = "running"
  /\ log = <<>>

Init == InitProcess \/ InitEndToEnd \/ InitCategorize \/ InitFetch

Next ==
  \/ ReadSnapshots
  \/ BeginPledge
  \/ FindContact
  \/ CreateContact
  \/ AddToList
  \/ GetDeals
  \/ CreateDeal
  \/ create_darujme_pledge_activity
  \/ GetActivities
  \/ CreateActivity
  \/ Finish
  \/ CategorizeExtract
  \/ CategorizeLookup
  \/ CategorizeReturn
  \/ RunAgain
  \/ CategorizeAgain
  \/ Main
  \/ GetProjects
  \/ SaveProjects
  \/ DownloadData
  \/ SaveData

Spec == Init /\ [][Next]_vars

(***************************************************************************)
(* Vocabulary of the properties.                                           *)
(***************************************************************************)
InFetch ==
  pc \in {"main", "get_projects", "save_projects", "download_data", "save_data",
          "exited"}

InProcess ==
  ~InFetch /\ pc \notin {"cat_start", "cat_lookup", "cat_returned", "cat_raised"}

\* the loop has finished with pledge k
Handled(k) == InProcess /\ k < i

\* no transaction of the pledge is in a successful state
NoSuccess(p) ==
  \A k \in 1..Len(p.transactions) : p.transactions[k].state \notin SUCCESSFUL_STATES

NoEmail(p) == p.donor.email = None \/ p.donor.email = ""

RequestsOf(k) == {n \in 1..Len(requests) : requests[n].i = k}
ErrorsOf(k) == {n \in 1..Len(results.errors) : results.errors[n][1] = k}
Issued(req, arg) ==
  {n \in 1..Len(requests) : requests[n].req = req /\ requests[n].arg = arg}

\* the CRM holds, on the contact and deal of the pledge being handled, an
\* activity dated on or after the start of the pledge's date whose body contains
\* the body computed for the pledge
CrmHoldsDuplicate ==
  \E n \in 1..Len(activities) :
    /\ activities[n].idContact = contact_id
    /\ activities[n].idDeal = deal_id
    /\ activities[n].timestamp >= pledges[i].pledgedAt.date * SecondsPerDay
    /\ Contains(ActivityBody(PledgeSentAmount(pledges[i])), activities[n].body)

(***************************************************************************)
(* C1.  With check_duplicates on, create_darujme_pledge_activity issues no *)
(* create-activity request while the CRM holds a duplicate of the pledge's *)
(* activity on the same contact and deal.  The code issues the request     *)
(* when the duplicate query fails: its failure is read as "no activities". *)
(***************************************************************************)
C1_NoCreateWhileDuplicateHeld ==
  pc = "create_activity" => ~CrmHoldsDuplicate

\* what the code does guarantee: no create request when the query was answered
C1_GuardWhenQueryAnswered ==
  (pc = "create_activity" /\ <<i, "activities.getAll">> \notin Range(failed))
    => ~CrmHoldsDuplicate

(***************************************************************************)
(* C2.  After a run in which every CRM call succeeded and which started    *)
(* with no activities, every pledge with an e-mail, a project title and a  *)
(* successful transaction has its own activity, on its contact and deal,   *)
(* with its timestamp.  The code skips a pledge whose body equals that of  *)
(* an activity created earlier in the run for a later or equal date.       *)
(***************************************************************************)
Recordable(p) ==
  /\ ~NoEmail(p)
  /\ ProjectTitle(projects, p.projectId) # None
  /\ ~NoSuccess(p)

HasOwnActivity(p) ==
  \E n \in 1..Len(activities) :
    /\ activities[n].timestamp = p.pledgedAt.date * SecondsPerDay + p.pledgedAt.time
    /\ \E c \in Range(contacts) :
         c.idContact = activities[n].idContact /\ Lower(c.email) = Lower(p.donor.email)
    /\ \E d \in Range(deals) :
         d.idDeal = activities[n].idDeal
           /\ d.title = ProjectTitle(projects, p.projectId)

CleanRunEnded ==
  /\ pc = "returned"
  /\ results.error = None
  /\ failed = <<>>
  /\ Len(activities) = results.activities_created

C2_EachDonationRecorded ==
  CleanRunEnded =>
    /\ \A k \in 1..Len(pledges) : Recordable(pledges[k]) => HasOwnActivity(pledges[k])
    /\ Len(activities) = Cardinality({k \in 1..Len(pledges) : Recordable(pledges[k])})

(***************************************************************************)
(* C3.  A pledge with no successful transaction: as claimed, no activity   *)
(* request is issued and no activity is created for it, and no error is    *)
(* ever recorded for it.                                                   *)
(***************************************************************************)
NoActivityRequestFor(k) ==
  \A n \in RequestsOf(k) :
    requests[n].req \notin {"activities.getAll", "activities.create"}

C3_NoActivityNoError ==
  InProcess =>
    \A k \in 1..Len(pledges) :
      NoSuccess(pledges[k]) => (NoActivityRequestFor(k) /\ ErrorsOf(k) = {})

(***************************************************************************)
(* C3, amended.  For a pledge with no successful transaction no activity   *)
(* request is ever issued, and create_darujme_pledge_activity, when the    *)
(* pledge reaches it, records no error: the pledge is counted as processed *)
(* with no request, no activity and no error.  (Errors of the steps before *)
(* the call are recorded for such a pledge as for any other.)              *)
(***************************************************************************)
C3_NoActivityRequest ==
  InProcess =>
    \A k \in 1..Len(pledges) : NoSuccess(pledges[k]) => NoActivityRequestFor(k)

C3_SkipStep ==
  (pc = "record" /\ NoSuccess(pledges[i])) =>
    /\ requests' = requests
    /\ failed' = failed
    /\ activities' = activities
    /\ results' = [results EXCEPT !.processed_pledges = @ + 1]
    /\ pc' = "loop"
    /\ i' = i + 1

C3_SilentSkip == [](C3_NoActivityRequest) /\ [][C3_SkipStep]_vars

\* a pledge with no successful transaction went through the call: it is counted
C3_Witness ==
  /\ InProcess
  /\ \E k \in 1..Len(pledges) :
       /\ Handled(k)
       /\ NoSuccess(pledges[k])
       /\ \E n \in RequestsOf(k) : requests[n].req = "deals.getAll"
       /\ ErrorsOf(k) = {}
       /\ results.processed_pledges >= 1

(***************************************************************************)
(* C4.  get_or_create_deal with two or more deals of the requested title   *)
(* in the CRM: it returns the id of the first listed and issues no         *)
(* create-deal request.  The code issues one when the lookup fails.        *)
(***************************************************************************)
C4_FirstDealNoThird ==
  /\ pc = "create_deal" => Len(CrmDealsByTitle(project_title)) < 2
  /\ (pc = "record" /\ Len(CrmDealsByTitle(project_title)) >= 2)
       => deal_id = CrmDealsByTitle(project_title)[1].idDeal

\* what the code does guarantee: the first listed deal, when the lookup answered
C4_FirstDealWhenLookupAnswered ==
  (pc \in {"create_deal", "record"} /\ <<i, "deals.getAll">> \notin Range(failed)
     /\ CrmDealsByTitle(project_title) # <<>>)
    => (pc = "record" /\ deal_id = CrmDealsByTitle(project_title)[1].idDeal)

(***************************************************************************)
(* C5.  Over a run, at most one create-deal request per project title, and *)
(* none for a title the CRM already holds a deal of, also when a deal      *)
(* lookup fails.                                                           *)
(***************************************************************************)
C5_OneDealPerTitle ==
  InProcess =>
    /\ \A t \in {"T1", "T2"} : Cardinality(Issued("deals.create", t)) <= 1
    /\ pc = "create_deal" => CrmDealsByTitle(project_title) = <<>>

(***************************************************************************)
(* C6.  Over a run, at most one create-contact request per donor e-mail,   *)
(* and none for an e-mail the CRM already holds a contact of.              *)
(***************************************************************************)
C6_OneContactPerEmail ==
  InProcess =>
    /\ \A e \in {EmailA, EmailB} : Cardinality(Issued("contacts.create", e)) <= 1
    /\ pc = "create_contact" => \A c \in Range(contacts) : c.email # DonorEmail

(***************************************************************************)
(* C7.  categorize_darujme_donors returns at most one donor per lower-cased *)
(* e-mail over 'new' and 'existing' together.                              *)
(***************************************************************************)
Categorized ==
  result.new \o [n \in 1..Len(result.existing) |-> result.existing[n].donor]

C7_OneDonorPerLowerEmail ==
  pc = "cat_returned" =>
    \A m, n \in 1..Len(Categorized) :
      Lower(Categorized[m].email) = Lower(Categorized[n].email) => m = n

(***************************************************************************)
(* C8.  A pledge without a donor e-mail (absent or empty) is never         *)
(* reconciled or recorded.  categorize_darujme_donors keeps no donor       *)
(* without an e-mail and looks none up; process_darujme_donors issues no   *)
(* CRM request for such a pledge, records exactly one error for it and     *)
(* goes on to the next pledge.                                             *)
(***************************************************************************)
C8_NoRequestOneError ==
  InProcess =>
    \A k \in 1..Len(pledges) :
      NoEmail(pledges[k]) =>
        /\ RequestsOf(k) = {}
        /\ Handled(k) => Cardinality(ErrorsOf(k)) = 1
        /\ i = k => pc = "loop"

C8_NotCategorized ==
  ~InProcess =>
    /\ \A n \in 1..Len(unique_donors) : ~NoEmail([donor |-> unique_donors[n]])
    /\ \A n \in 1..Len(Categorized) : ~NoEmail([donor |-> Categorized[n]])
    /\ \A n \in 1..Len(requests) :
         /\ requests[n].arg # None /\ requests[n].arg # ""
         /\ requests[n].arg = unique_donors[requests[n].i].email

C8_MissingDataStep ==
  (pc = "loop" /\ i <= Len(pledges) /\ NoEmail(pledges[i])) =>
    /\ requests' = requests
    /\ results' = [results EXCEPT !.errors = Append(@, <<i, "Missing data">>)]
    /\ pc' = "loop"
    /\ i' = i + 1
    /\ UNCHANGED crm

C8_NoEmailNeverReconciled ==
  [](C8_NoRequestOneError /\ C8_NotCategorized) /\ [][C8_MissingDataStep]_vars

\* a pledge without e-mail was passed over with one error and no request, and
\* the pledge after it was worked on
C8_Witness ==
  /\ pc = "returned"
  /\ \E k \in 1..Len(pledges) :
       /\ NoEmail(pledges[k])
       /\ Cardinality(ErrorsOf(k)) = 1
       /\ RequestsOf(k) = {}
       /\ RequestsOf(k + 1) # {}

(***************************************************************************)
(* C9.  categorize_darujme_donors partitions the unique donors: each       *)
(* e-mail of the input is in exactly one bucket, with the donor record     *)
(* seen first; it is in 'existing', with the id of the first matching      *)
(* contact the CRM lists, exactly when the lookup finds a contact, and in  *)
(* 'new' otherwise; each bucket is in first-appearance order.              *)
(***************************************************************************)
InputEmails ==
  {pledges[k].donor.email : k \in 1..Len(pledges)} \ {None, ""}

FirstIndex(e) ==
  CHOOSE k \in 1..Len(pledges) :
    /\ pledges[k].donor.email = e
    /\ \A m \in 1..(k - 1) : pledges[m].donor.email # e

\* the contacts the CRM's search lists for e that carry e but for letter case
CrmHits(e) ==
  {n \in 1..Len(contacts) :
     /\ email_search = "exact" => contacts[n].email = e
     /\ Lower(contacts[n].email) = Lower(e)}

LookupAnswered(e) ==
  \E j \in 1..Len(unique_donors) :
    unique_donors[j].email = e /\ <<j, "contacts.getAll">> \notin Range(failed)

FirstHitId(e) ==
  contacts[CHOOSE n \in CrmHits(e) : \A m \in CrmHits(e) : n <= m].idContact

InOrder(bucket) ==
  \A m, n \in 1..Len(bucket) :
    m < n => FirstIndex(bucket[m].email) < FirstIndex(bucket[n].email)

C9_Partition ==
  pc = "cat_returned" =>
    /\ Len(Categorized) = Cardinality(InputEmails)
    /\ \A e \in InputEmails :
         /\ \E n \in 1..Len(Categorized) : Categorized[n] = pledges[FirstIndex(e)].donor
         /\ (LookupAnswered(e) /\ CrmHits(e) # {})
              <=> \E n \in 1..Len(result.existing) :
                    /\ result.existing[n].donor.email = e
                    /\ result.existing[n].contact_id = FirstHitId(e)
         /\ ~(LookupAnswered(e) /\ CrmHits(e) # {})
              <=> \E n \in 1..Len(result.new) : result.new[n].email = e
    /\ InOrder(result.new)
    /\ InOrder([n \in 1..Len(result.existing) |-> result.existing[n].donor])

\* a repeated e-mail, one donor found and one not
C9_Witness ==
  /\ pc = "cat_returned"
  /\ Len(pledges) > Len(Categorized)
  /\ Len(result.new) >= 1
  /\ Len(result.existing) >= 1
  /\ failed = <<>>

(***************************************************************************)
(* C10.  In process_darujme_donors every failing CRM call of a pledge adds *)
(* an entry to results['errors'] and the loop goes on; no failure ends the *)
(* run.  The code records nothing when a list add answers with a failure   *)
(* status, when a deal lookup, a duplicate query or an activity creation   *)
(* fails, or when a contact lookup answers with a failure status.          *)
(***************************************************************************)
C10_FailureRecorded ==
  InProcess =>
    /\ \A n \in 1..Len(failed) :
         Handled(failed[n][1]) => ErrorsOf(failed[n][1]) # {}
    /\ (pc = "returned" /\ results.error = None) => i = Len(pledges) + 1

\* what the code does guarantee: whatever fails, the run reaches its end, and
\* no request is issued twice for one pledge
C10_NoAbortNoRetry ==
  InProcess =>
    /\ (pc = "returned" /\ results.error = None) => i = Len(pledges) + 1
    /\ \A m, n \in 1..Len(requests) :
         (requests[m].i = requests[n].i /\ requests[m].req = requests[n].req) => m = n

(***************************************************************************)
(* C11.  darujme.py's main ends with a non-zero exit code or an uncaught   *)
(* exception when the credentials are missing, when the projects request   *)
(* or the pledges request fails, and when either snapshot cannot be saved; *)
(* after a failed projects request nothing more is requested.  The code    *)
(* exits with 0 after a failed pledges request and after a failed save of  *)
(* the pledges, and goes on to the pledges after a failed projects request.*)
(***************************************************************************)
FetchFailures ==
  {"Missing required environment variables", "Error downloading projects",
   "Error downloading data", "Error saving data"}

C11_FailedFetchIsFatal ==
  /\ (pc = "exited" /\ Range(log) \cap FetchFailures # {}) => exit_status # "0"
  /\ "Error downloading projects" \in Range(log)
       => (from_date = <<>> /\ pc \in {"get_projects", "download_data", "exited"})

\* what the code does guarantee: exit code 1, with nothing requested afterwards,
\* for missing credentials and for a projects snapshot that cannot be saved
C11_FatalAtStartup ==
  (Range(log) \cap {"Missing required environment variables",
                    "Failed to save projects data"} # {})
    => (pc = "exited" /\ exit_status = "1" /\ from_date = <<>> /\ data = JsonNone)

(***************************************************************************)
(* C12.  When the pledges snapshot or the projects snapshot is absent,     *)
(* unreadable, malformed or holds no records, process_darujme_donors       *)
(* stops after reading: it returns an error payload ('No pledges found',   *)
(* or 'No projects found' when only the projects are missing), counts      *)
(* nothing and issues no CRM request.                                      *)
(***************************************************************************)
NoRecords(file, key) == ~file.readable \/ file[key] = <<>>

C12_EmptySnapshotHalts ==
  (InProcess /\ pc # "start"
     /\ (NoRecords(darujme_file, "pledges") \/ NoRecords(projects_file, "projects")))
    => /\ pc = "returned"
       /\ results =
            [EmptyResults EXCEPT !.error =
               IF NoRecords(darujme_file, "pledges") THEN "No pledges found"
               ELSE "No projects found"]
       /\ requests = <<>>
       /\ failed = <<>>

\* the pledges are there, the projects snapshot cannot be read: the run halted
C12_Witness ==
  /\ pc = "returned"
  /\ darujme_file.readable /\ darujme_file.pledges # <<>>
  /\ ~projects_file.readable
  /\ results.error = "No projects found"
  /\ requests = <<>>

(***************************************************************************)
(* C13.  get_date_range resolves 'week' to now minus 7 days, 'year' to now *)
(* minus 365 days and a string of digits to now minus that many days (the  *)
(* words in any letter case, the digits with or without leading zeros).    *)
(* Every other token raises ValueError, which download_data does not       *)
(* catch: no request is sent, nothing is returned as a failed fetch, and   *)
(* main ends with the exception.                                           *)
(***************************************************************************)
Week == <<"w", "e", "e", "k">>
Year == <<"y", "e", "a", "r">>

\* the days back each token of Timeframes stands for, -1 for a token that is
\* neither 'week', 'year' nor a day count
ExpectedDaysBack(t) ==
  CASE t = Week -> 7
    [] t = <<"W", "e", "e", "k">> -> 7
    [] t = Year -> 365
    [] t = <<"3", "0">> -> 30
    [] t = <<"0", "0", "7">> -> 7
    [] OTHER -> -1

C13_TimeframeResolution ==
  InFetch =>
    LET n == ExpectedDaysBack(env.timeframe)
    IN  /\ (n >= 0 /\ pc \in {"save_data", "exited"} /\ exit_status \in {"running", "0"})
             => from_date = <<env.today - n>>
        /\ n >= 0 => exit_status # "ValueError"
        /\ n < 0 =>
             /\ from_date = <<>>
             /\ data = JsonNone
             /\ pc # "save_data"
             /\ Range(log) \cap {"Error downloading data", "Process failed",
                                 "Process completed successfully"} = {}
             /\ pc = "exited" => exit_status \in {"1", "OSError", "ValueError"}
             /\ (pc = "exited" /\ exit_status \notin {"1", "OSError"})
                  => exit_status = "ValueError"

\* 'banana' reached download_data after the projects were saved
C13_Witness ==
  /\ pc = "exited"
  /\ env.timeframe = <<"b", "a", "n", "a", "n", "a">>
  /\ "Projects data saved" \in Range(log)
  /\ exit_status = "ValueError"

(***************************************************************************)
(* C14.  Every create-activity request carries the pledge's amounts        *)
(* converted from minor units: sent_amount and outgoing_amount are the     *)
(* whole number nearest to cents / 100, a midpoint (cents mod 100 = 50)    *)
(* going to the even neighbour in every case: 12345 gives 123, 150 gives   *)
(* 2, 250 gives 2, 50 gives 0.  The body embeds sent_amount, the gross     *)
(* custom field is str(sent_amount) and the net one str(outgoing_amount).  *)
(***************************************************************************)
\* r is the whole number nearest to c / 100, the even one of two equally near
RoundsTo(c, r) ==
  /\ 100 * r - c \in -50..50
  /\ 100 * r - c \in {-50, 50} => r % 2 = 0

\* the transaction the amounts are taken from: the first in a successful state
SuccessfulTx(p) ==
  p.transactions[CHOOSE k \in 1..Len(p.transactions) :
                   /\ p.transactions[k].state \in SUCCESSFUL_STATES
                   /\ \A m \in 1..(k - 1) :
                        p.transactions[m].state \notin SUCCESSFUL_STATES]

CreateRequests == {n \in 1..Len(requests) : requests[n].req = "activities.create"}

C14_AmountConversion ==
  InProcess =>
    \A n \in CreateRequests :
      LET t == SuccessfulTx(pledges[requests[n].i])
          a == requests[n].arg
      IN  /\ \E r \in {t.sentCents \div 100, t.sentCents \div 100 + 1} :
               /\ RoundsTo(t.sentCents, r)
               /\ a.body = BodyPrefix \o Digits(r) \o BodySuffix
               /\ a.customFields.amount_gross = Digits(r)
          /\ \E r \in {t.outCents \div 100, t.outCents \div 100 + 1} :
               /\ RoundsTo(t.outCents, r)
               /\ a.customFields.amount_net = Digits(r)
          /\ t.sentCents = 12345 => a.customFields.amount_gross = <<"1", "2", "3">>
          /\ t.sentCents = 150 => a.customFields.amount_gross = <<"2">>
          /\ t.outCents = 150 => a.customFields.amount_net = <<"2">>

\* a midpoint above an even unit was sent: 250 gives 2
C14_Witness ==
  /\ InProcess
  /\ \E n \in CreateRequests :
       /\ SuccessfulTx(pledges[requests[n].i]).sentCents = 250
       /\ requests[n].arg.body = BodyPrefix \o <<"2">> \o BodySuffix
       /\ requests[n].arg.customFields.amount_gross = <<"2">>

(***************************************************************************)
(* C15.  End to end: a snapshot of 3 successful pledges of 2 donors (one   *)
(* donor twice), a CRM that holds donor A's contact, not donor B's, and no *)
(* activity, every CRM call succeeding.  The run reports 1 existing and 1  *)
(* new donor, issues 1 create-contact request, has both donors on the      *)
(* list, has one deal per project title referenced and creates exactly 2   *)
(* activities.  The code counts a donor once per pledge and creates an     *)
(* activity per pledge.                                                    *)
(***************************************************************************)
EndToEndScenario ==
  /\ pc = "returned"
  /\ run = 1
  /\ results.error = None
  /\ failed = <<>>
  /\ Len(pledges) = 3
  /\ \A k \in 1..3 : Recordable(pledges[k])
  /\ {pledges[k].donor.email : k \in 1..3} = {EmailA, EmailB}
  /\ Len(contacts) - results.new_donors = 1
  /\ contacts[1].email = EmailA
  /\ Len(activities) = results.activities_created

TitlesReferenced == {ProjectTitle(projects, pledges[k].projectId) : k \in 1..Len(pledges)}

\* the part on contacts, list and deals
EndToEndProvisioned ==
  /\ results.new_donors = 1
  /\ Cardinality({n \in 1..Len(requests) : requests[n].req = "contacts.create"}) = 1
  /\ \A e \in {EmailA, EmailB} :
       \E c \in Range(contacts) : c.email = e /\ c.idContact \in list_members
  /\ \A t \in TitlesReferenced :
       /\ Len(CrmDealsByTitle(t)) = 1
       /\ Cardinality(Issued("deals.create", t)) <= 1

C15_EndToEnd ==
  EndToEndScenario =>
    /\ EndToEndProvisioned
    /\ results.existing_donors = 1
    /\ results.activities_created = 2
    /\ Cardinality(CreateRequests) = 2

\* what the code does guarantee in the scenario
C15_Provisioning ==
  EndToEndScenario =>
    /\ EndToEndProvisioned
    /\ results.existing_donors = 2
    /\ results.activities_created \in {2, 3}

(***************************************************************************)
(* C16.  filter_successful_pledges keeps a pledge if and only if one of    *)
(* its transactions is in a successful state: the result is the input's    *)
(* successful pledges in input order, filtering the result again changes   *)
(* nothing, and None, an empty object and an object without 'pledges' give *)
(* an empty pledge list.                                                   *)
(***************************************************************************)
\* main saved the filtered pledges
FetchSaved == "Process completed successfully" \in Range(log)

\* out is the list of the successful pledges of in, in the order of in
KeptInOrder(in, out) ==
  LET S == {k \in 1..Len(in) : ~NoSuccess(in[k])}
  IN  /\ Len(out) = Cardinality(S)
      /\ \A j \in 1..Len(out) :
           out[j] = in[CHOOSE k \in S : Cardinality({m \in S : m <= k}) = j]

C16_FilterKeepsSuccessful ==
  /\ filter_successful_pledges(JsonNone) = JsonDict({"pledges"}, <<>>)
  /\ filter_successful_pledges(JsonDict({}, <<>>)) = JsonDict({"pledges"}, <<>>)
  /\ FetchSaved =>
       LET out == darujme_file.pledges
       IN  /\ darujme_file.readable
           /\ "pledges" \notin data.keys => out = <<>>
           /\ "pledges" \in data.keys => KeptInOrder(data.items, out)
           /\ filter_successful_pledges(JsonDict({"pledges"}, out)).items = out

\* of a failed pledge and one whose second transaction succeeded, the second
\* alone was kept
C16_Witness ==
  /\ FetchSaved
  /\ Len(data.items) = 2
  /\ NoSuccess(data.items[1])
  /\ Len(data.items[2].transactions) = 2
  /\ darujme_file.pledges = <<data.items[2]>>

(***************************************************************************)
(* C17.  categorize_darujme_donors called twice with the same pledge list, *)
(* the CRM's contacts not changing in between, returns the same 'new' and  *)
(* 'existing' lists (same donors, same contact ids, same order), and the   *)
(* CRM is as it was.  The code returns different lists when a lookup is    *)
(* answered with a failure status in one call and with the contact in the  *)
(* other.                                                                  *)
(***************************************************************************)
CrmAsBefore ==
  /\ contacts = before.contacts
  /\ deals = before.deals
  /\ activities = before.activities
  /\ list_members = before.list_members

C17_SameClassification ==
  (pc = "cat_returned" /\ run > 1) => (result = before.result /\ CrmAsBefore)

\* what the code does guarantee: the same lists when every lookup of both calls
\* was answered, and an unchanged CRM in any case
C17_SameWhenAnswered ==
  /\ (pc = "cat_returned" /\ run > 1 /\ before.failed = 0 /\ failed = <<>>)
       => result = before.result
  /\ (~InProcess /\ ~InFetch /\ run > 1) => CrmAsBefore

(***************************************************************************)
(* C18.  A second run of process_darujme_donors on the same snapshots,     *)
(* against the CRM as the first run left it, every CRM call of both runs   *)
(* succeeding: it issues no create-contact, no create-deal and no          *)
(* create-activity request, and contacts, deals and activities stay as     *)
(* they were.                                                              *)
(***************************************************************************)
SecondCleanRun ==
  InProcess /\ run = 2 /\ before.failed = 0 /\ failed = <<>>

C18_RerunCreatesNothing ==
  SecondCleanRun =>
    /\ \A n \in 1..Len(requests) :
         requests[n].req \notin {"contacts.create", "deals.create", "activities.create"}
    /\ contacts = before.contacts
    /\ deals = before.deals
    /\ activities = before.activities

\* the first run created a contact, a deal and an activity; the second run went
\* through the same pledges and ended
C18_Witness ==
  /\ SecondCleanRun
  /\ pc = "returned"
  /\ before.results.new_donors >= 1
  /\ before.results.activities_created >= 1
  /\ results.processed_pledges = before.results.processed_pledges
  /\ \E n \in 1..Len(requests) : requests[n].req = "activities.getAll"

(***************************************************************************)
(* C19.  A pledge whose projectId is that of a project in the projects     *)
(* snapshot resolves to the project's title, whether the identifier is a   *)
(* number or a string in either snapshot, and is never reported as         *)
(* 'Missing data' for lack of a title.  The code looks the pledge's        *)
(* identifier up as it is among keys that are strings: a numeric           *)
(* identifier resolves to nothing.                                         *)
(***************************************************************************)
\* the title of the project of the snapshot with the pledge's identifier
SnapshotTitles(p) ==
  {projects_file.projects[j].title : j \in
     {j \in 1..Len(projects_file.projects) :
        projects_file.projects[j].projectId[2] = p.projectId[2]}}

MissingDataFor(k) ==
  \E n \in ErrorsOf(k) : results.errors[n][2] = "Missing data"

C19_TitleResolved ==
  (InProcess /\ pc # "start" /\ results.error = None) =>
    \A k \in 1..Len(pledges) :
      SnapshotTitles(pledges[k]) # {} =>
        /\ ProjectTitle(projects, pledges[k].projectId) \in SnapshotTitles(pledges[k])
        /\ ~NoEmail(pledges[k]) => ~MissingDataFor(k)

\* what the code does guarantee: an identifier that is a string in the pledge
\* resolves, whatever it is in the projects snapshot
C19_StringIdResolved ==
  (InProcess /\ pc # "start" /\ results.error = None) =>
    \A k \in 1..Len(pledges) :
      (SnapshotTitles(pledges[k]) # {} /\ pledges[k].projectId[1] = "str") =>
        /\ ProjectTitle(projects, pledges[k].projectId) \in SnapshotTitles(pledges[k])
        /\ ~NoEmail(pledges[k]) => ~MissingDataFor(k)

(***************************************************************************)
(* C20.  The accounting of the process_darujme_donors loop: the handling   *)
(* of a pledge ends by adding one to processed_pledges or one entry to the *)
(* error list, never both, so processed_pledges + len(errors) is the       *)
(* number of pledges handled so far, and the snapshot's pledge count when  *)
(* the run has ended; and activities_created <= processed_pledges <=       *)
(* new_donors + existing_donors throughout.                                *)
(***************************************************************************)
C20_Counts ==
  InProcess =>
    /\ results.processed_pledges + Len(results.errors) = i - 1
    /\ (pc = "returned" /\ results.error = None)
         => results.processed_pledges + Len(results.errors) = Len(pledges)
    /\ results.activities_created <= results.processed_pledges
    /\ results.processed_pledges <= results.new_donors + results.existing_donors

C20_PledgeStep ==
  (InProcess /\ i' = i + 1) =>
    \/ /\ results'.processed_pledges = results.processed_pledges + 1
       /\ results'.errors = results.errors
    \/ /\ results'.processed_pledges = results.processed_pledges
       /\ Len(results'.errors) = Len(results.errors) + 1
       /\ SubSeq(results'.errors, 1, Len(results.errors)) = results.errors

C20_Accounting == [](C20_Counts) /\ [][C20_PledgeStep]_vars

\* a run ended with a pledge counted without an activity and a pledge in error
C20_Witness ==
  /\ pc = "returned"
  /\ results.error = None
  /\ results.processed_pledges >= 1
  /\ Len(results.errors) >= 1
  /\ results.activities_created < results.processed_pledges

(***************************************************************************)
(* C21.  The CRM requests of one pledge come in the order contact lookup,  *)
(* contact creation, list add, deal lookup, deal creation, duplicate       *)
(* query, activity creation, each one right after the one it depends on;   *)
(* a contact or a deal is created only when its lookup gave none; the      *)
(* create-activity request is issued with the contact id and the deal id   *)
(* obtained for the pledge being handled, neither empty; and every request *)
(* belongs to the pledge being handled: none is issued for the next pledge *)
(* before the loop has moved on, none for an earlier pledge afterwards.    *)
(***************************************************************************)
\* the requests that may come right before a request of the same pledge
ComesAfter(req) ==
  CASE req = "contacts.getAll" -> {}
    [] req = "contacts.create" -> {"contacts.getAll"}
    [] req = "contacts.manageLists" -> {"contacts.getAll", "contacts.create"}
    [] req = "deals.getAll" -> {"contacts.manageLists"}
    [] req = "deals.create" -> {"deals.getAll"}
    [] req = "activities.getAll" -> {"deals.getAll", "deals.create"}
    [] req = "activities.create" -> {"activities.getAll"}

C21_RequestOrder ==
  \A n \in 1..Len(requests) :
    /\ requests[n].i <= i
    /\ pc \in {"loop", "returned"} => requests[n].i < i
    /\ n > 1 => requests[n - 1].i <= requests[n].i
    /\ IF n > 1 /\ requests[n - 1].i = requests[n].i
         THEN requests[n - 1].req \in ComesAfter(requests[n].req)
         ELSE requests[n].req = "contacts.getAll"

C21_CreateOnlyWhenNoneFound ==
  /\ pc = "create_contact" =>
       /\ contact_id = 0
       /\ <<i, "contacts.getAll">> \notin Range(failed)
            => \A c \in Range(contacts) : Lower(c.email) # Lower(DonorEmail)
  /\ pc = "create_deal" =>
       /\ deal_id = 0
       /\ <<i, "deals.getAll">> \notin Range(failed)
            => CrmDealsByTitle(project_title) = <<>>

C21_IdsOfThisPledge ==
  pc \in {"get_activities", "create_activity"} =>
    /\ contact_id # 0 /\ deal_id # 0
    /\ \E c \in Range(contacts) :
         c.idContact = contact_id /\ Lower(c.email) = Lower(DonorEmail)
    /\ \E d \in Range(deals) : d.idDeal = deal_id /\ d.title = project_title
    /\ \E m, n \in RequestsOf(i) :
         /\ requests[m].req \in {"contacts.getAll", "contacts.create"}
         /\ requests[m].arg = DonorEmail
         /\ requests[n].req \in {"deals.getAll", "deals.create"}
         /\ requests[n].arg = project_title

\* a request is issued by the handling of pledge i, and leaves i as it is unless
\* it ends that handling
C21_RequestStep ==
  (InProcess /\ Len(requests') = Len(requests) + 1) =>
    /\ pc \notin {"start", "loop", "returned"}
    /\ requests'[Len(requests')].i = i
    /\ i' \in {i, i + 1}
    /\ i' = i + 1 => pc' = "loop"

C21_InOrder ==
  InProcess =>
    (C21_RequestOrder /\ C21_CreateOnlyWhenNoneFound /\ C21_IdsOfThisPledge)

C21_PerPledgeOrdering == [](C21_InOrder) /\ [][C21_RequestStep]_vars

\* the first pledge needed all seven requests, and the second pledge's requests
\* followed them
C21_Witness ==
  /\ InProcess
  /\ Cardinality(RequestsOf(1)) = 7
  /\ RequestsOf(2) # {}

====
